---- MODULE Spec2Model ----
(***************************************************************************)
(* Model of the mock-interview chat assistant: the QuestionsGenerator      *)
(* class (questions_generator.py) and the Streamlit script that drives it  *)
(* (app.py).                                                               *)
(*                                                                         *)
(* A Python str is modelled as a sequence of atoms; an atom is a TLA+      *)
(* string standing for one character or for one fixed literal block of the *)
(* source.  String concatenation is \o, "\n".join is Join.                 *)
(* A Python dict is modelled as a sequence of [key, value] records with    *)
(* distinct keys (insertion order is iteration order).                     *)
(* A call that may raise returns a record whose exc field names the        *)
(* exception ("none" when it returns normally).                            *)
(***************************************************************************)
EXTENDS Integers, Sequences, FiniteSets, TLC

VARIABLES
    files,          \* midterm/<id>.json and mygpt/<id>.json (present, data)
    api_key,        \* whether OPENAI_API_KEY is available to the process
    session_state,  \* st.session_state: a function on the keys set so far
    requests,       \* request/response exchanges seen by the endpoint, in order
    calls,          \* start_process calls as seen by their caller, in order
    clients,        \* number of OpenAI clients created so far
    typed,          \* the texts the user has typed into the text input, in order
    page            \* what the last script run rendered

vars == <<files, api_key, session_state, requests, calls, clients, typed, page>>

----------------------------------------------------------------------------
\* Bounds of the model

MaxCalls == 3
MaxEntries == 2
MaxQuestions == 2

----------------------------------------------------------------------------
\* Literals of the source.  The non-ASCII literals (the transcript header,
\* the persona preamble, the two headings of the user template, the seed
\* phrase and the user's speaker label) are each one atom, named in English.

NL == "\n"
Indent == "        "
StudentId == "111403538"
Header == <<"# conversation between the user and the AI">>
Preamble == "# background setting ... one question at a time."
MidtermHeading == "# midterm weak points"
QuestionsHeading == "# questions"
Seed == <<"begin the interview">>
UserLabel == "You"
AILabel == "AI"
Model == "gpt-4o"
TemperatureTenths == 6

----------------------------------------------------------------------------
\* Inputs

MidtermKeys == {<<"recursion">>, <<"loops">>}
MidtermValues == {<<"weak">>, <<"o", "k">>}
Categories == {<<"loops">>, <<"io">>}
Questions == {<<"why use a for-loop?">>, <<"what is an infinite loop?">>}
TypedTexts == {<<"a">>, <<"b", "c">>}
Replies == {<<>>, <<"a">>, <<"q", NL, "r">>}

Mappings(K, V, n) ==
    { m \in UNION { [1..k -> [key : K, value : V]] : k \in 0..n } :
        \A i, j \in DOMAIN m : i # j => m[i].key # m[j].key }

QuestionLists == UNION { [1..k -> Questions] : k \in 0..MaxQuestions }

NoFile == [present |-> FALSE, data |-> <<>>]
File(d) == [present |-> TRUE, data |-> d]

AllMidtermFiles == {NoFile} \cup { File(m) : m \in Mappings(MidtermKeys, MidtermValues, MaxEntries) }
AllMygptFiles == {NoFile} \cup { File(m) : m \in Mappings(Categories, QuestionLists, MaxEntries) }

SampleMidterm == <<[key |-> <<"recursion">>, value |-> <<"weak">>]>>
SampleMygpt ==
    <<[key |-> <<"loops">>,
       value |-> <<<<"why use a for-loop?">>, <<"what is an infinite loop?">>>>]>>

\* What the completion endpoint may answer: an error, or one choice.
Responses ==
    {[status |-> "error", choices |-> <<>>]} \cup
    { [status |-> "ok", choices |-> <<[message |-> [content |-> r]]>>] : r \in Replies }

----------------------------------------------------------------------------
\* Helpers for Python values

Put(d, k, v) == [x \in (DOMAIN d) \cup {k} |-> IF x = k THEN v ELSE d[x]]
Has(d, k) == k \in DOMAIN d

\* Join with the first entry left out
RECURSIVE JoinRest(_)
JoinRest(s) ==
    IF Len(s) <= 1 THEN <<>>
    ELSE IF Len(s) = 2 THEN s[2]
    ELSE s[2] \o <<NL>> \o JoinRest(Tail(s))

\* ("\n").join(seq)
RECURSIVE Join(_)
Join(s) ==
    IF s = <<>> THEN <<>>
    ELSE IF Len(s) = 1 THEN s[1]
    ELSE s[1] \o <<NL>> \o Join(Tail(s))

DigitChar(d) ==
    CASE d = 0 -> "0" [] d = 1 -> "1" [] d = 2 -> "2" [] d = 3 -> "3"
      [] d = 4 -> "4" [] d = 5 -> "5" [] d = 6 -> "6" [] d = 7 -> "7"
      [] d = 8 -> "8" [] d = 9 -> "9"

\* str(n) for n >= 0, as used by f"{idx}"
RECURSIVE Str(_)
Str(n) == IF n < 10 THEN <<DigitChar(n)>> ELSE Str(n \div 10) \o <<DigitChar(n % 10)>>

----------------------------------------------------------------------------
\* questions_generator.py : QuestionsGenerator

\* the for loop of _get_midterm
RECURSIVE MidtermLoop(_, _, _)
MidtermLoop(result, midterm, i) ==
    IF i > Len(midterm) THEN result
    ELSE MidtermLoop(result \o midterm[i].key \o <<":", " ">> \o midterm[i].value \o <<NL>>,
                     midterm, i + 1)

get_midterm(student_id, fs) ==
    IF ~fs.midterm.present
    THEN [exc |-> "FileNotFoundError", val |-> <<>>]
    ELSE [exc |-> "none", val |-> MidtermLoop(<<>>, fs.midterm.data, 1)]

\* first index of enumerate(value, start=1)
EnumerateStart == 1

\* QuestionLoop numbering from 0
RECURSIVE QuestionLoopFromZero(_, _, _)
QuestionLoopFromZero(result, value, i) ==
    IF i > Len(value) THEN result
    ELSE QuestionLoopFromZero(result \o Str(i - 1) \o <<".", " ">> \o value[i] \o <<NL>>,
                              value, i + 1)

\* the inner for loop of _get_mygpt; idx is the enumerate index of value[i]
RECURSIVE QuestionLoop(_, _, _)
QuestionLoop(result, value, i) ==
    IF i > Len(value) THEN result
    ELSE QuestionLoop(result \o Str(EnumerateStart + i - 1) \o <<".", " ">> \o value[i] \o <<NL>>,
                      value, i + 1)

\* the outer for loop of _get_mygpt
RECURSIVE MygptLoop(_, _, _)
MygptLoop(result, mygpt, i) ==
    IF i > Len(mygpt) THEN result
    ELSE MygptLoop(QuestionLoop(result \o mygpt[i].key \o <<":", NL, NL>>, mygpt[i].value, 1)
                       \o <<NL>>,
                   mygpt, i + 1)

get_mygpt(student_id, fs) ==
    IF ~fs.mygpt.present
    THEN [exc |-> "FileNotFoundError", val |-> <<>>]
    ELSE [exc |-> "none", val |-> MygptLoop(<<>>, fs.mygpt.data, 1)]

\* the f-string of _initialize_user_prompt_template
UserTemplate(midterm, mygpt) ==
    <<NL, Indent, MidtermHeading, NL, Indent>> \o midterm
        \o <<NL, NL, Indent, QuestionsHeading, NL, Indent>> \o mygpt
        \o <<NL, Indent>>

initialize_user_prompt_template(student_id, fs) ==
    LET midterm == get_midterm(student_id, fs) IN
    IF midterm.exc # "none" THEN [exc |-> midterm.exc, val |-> <<>>]
    ELSE LET mygpt == get_mygpt(student_id, fs) IN
         IF mygpt.exc # "none" THEN [exc |-> mygpt.exc, val |-> <<>>]
         ELSE [exc |-> "none", val |-> UserTemplate(midterm.val, mygpt.val)]

initialize_system_prompt_template(user_prompt_template) ==
    <<NL, Preamble, NL, NL>> \o user_prompt_template \o <<NL>>

\* add_conversation_history keeping the header and the last four turns only
add_conversation_history_capped(self, content) ==
    LET h == Append(self.conversation_history, content) IN
    [self EXCEPT !.conversation_history =
        IF Len(h) <= 5 THEN h ELSE <<h[1]>> \o SubSeq(h, Len(h) - 3, Len(h))]

add_conversation_history(self, content) ==
    [self EXCEPT !.conversation_history = Append(@, content)]

\* The object __init__ has nothing to return when it raises.
NoObject ==
    [student_id |-> StudentId, user_prompt_template |-> <<>>,
     system_prompt_template |-> <<>>, conversation_history |-> <<>>, client |-> 0]

\* __init__ creating the client before it loads the student's files
QG_init_client_first(student_id, fs, key, n) ==
    IF ~key THEN [exc |-> "OpenAIError", self |-> NoObject, clients |-> n]
    ELSE LET u == initialize_user_prompt_template(student_id, fs) IN
         IF u.exc # "none" THEN [exc |-> u.exc, self |-> NoObject, clients |-> n + 1]
         ELSE [exc |-> "none",
               self |-> [student_id |-> student_id,
                         user_prompt_template |-> u.val,
                         system_prompt_template |-> initialize_system_prompt_template(u.val),
                         conversation_history |-> <<Header>>,
                         client |-> n + 1],
               clients |-> n + 1]

\* QuestionsGenerator.__init__; n is the number of clients created before it
QG_init(student_id, fs, key, n) ==
    LET u == initialize_user_prompt_template(student_id, fs) IN
    IF u.exc # "none" THEN [exc |-> u.exc, self |-> NoObject, clients |-> n]
    ELSE IF ~key THEN [exc |-> "OpenAIError", self |-> NoObject, clients |-> n]
    ELSE [exc |-> "none",
          self |-> [student_id |-> student_id,
                    user_prompt_template |-> u.val,
                    system_prompt_template |-> initialize_system_prompt_template(u.val),
                    conversation_history |-> <<Header>>,
                    client |-> n + 1],
          clients |-> n + 1]

\* Messages with the transcript folded into the system message
Messages_history_in_system(self, conversation_history) ==
    <<[role |-> "system", content |-> self.system_prompt_template \o <<NL>> \o conversation_history],
      [role |-> "user", content |-> conversation_history]>>

\* the messages list of _get_questions
Messages(self, conversation_history) ==
    <<[role |-> "system", content |-> self.system_prompt_template],
      [role |-> "user", content |-> conversation_history]>>

\* the text _get_questions returns for a completion
Returned(chat_completion) == chat_completion.choices[1].message.content

\* _get_questions sending the request a second time when it fails
get_questions_retry(self, model, resp, net) ==
    LET conversation_history == Join(self.conversation_history)
        request == [client |-> self.client, model |-> model,
                    messages |-> Messages(self, conversation_history),
                    temperature |-> TemperatureTenths]
        net1 == Append(net, [request |-> request, response |-> resp])
    IN  IF resp.status # "ok"
        THEN [exc |-> "APIError", self |-> self, val |-> <<>>,
              net |-> Append(net1, [request |-> request, response |-> resp])]
        ELSE [exc |-> "none",
              self |-> add_conversation_history(self, resp.choices[1].message.content),
              val |-> Returned(resp),
              net |-> net1]

\* _get_questions; resp is the endpoint's answer to the request, net the
\* exchanges the endpoint has seen so far
get_questions(self, model, resp, net) ==
    LET conversation_history == Join(self.conversation_history)
        request == [client |-> self.client, model |-> model,
                    messages |-> Messages(self, conversation_history),
                    temperature |-> TemperatureTenths]
        net1 == Append(net, [request |-> request, response |-> resp])
    IN  IF resp.status # "ok"
        THEN [exc |-> "APIError", self |-> self, val |-> <<>>, net |-> net1]
        ELSE [exc |-> "none",
              self |-> add_conversation_history(self, resp.choices[1].message.content),
              val |-> Returned(resp),
              net |-> net1]

\* start_process appending the user turn after the reply
start_process_reply_first(self, user_content, resp, net) ==
    LET r == get_questions(self, Model, resp, net) IN
    [r EXCEPT !.self = add_conversation_history(r.self, user_content)]

\* start_process taking the user turn back when the completion call fails
start_process_rollback(self, user_content, resp, net) ==
    LET r == get_questions(add_conversation_history(self, user_content), Model, resp, net) IN
    IF r.exc # "none" THEN [r EXCEPT !.self = self] ELSE r

start_process(self, user_content, resp, net) ==
    get_questions(add_conversation_history(self, user_content), Model, resp, net)

----------------------------------------------------------------------------
\* app.py : the Streamlit script and its callbacks
\*
\* A run threads a record R through the statements of the script:
\*   ss, net, calls, clients : the values of the variables so far
\*   page  : what the run has rendered so far
\*   resps : the endpoint's answers to the requests still to come in this run
\*   exc   : the exception that aborted the run ("none" while it is running)

BlankPage == [text_input |-> FALSE, button |-> FALSE, chat_shown |-> FALSE,
              chat |-> <<>>, error |-> "none"]

Start(resps) ==
    [ss |-> session_state, net |-> requests, calls |-> calls, clients |-> clients,
     page |-> BlankPage, resps |-> resps, exc |-> "none"]

\* process_input logging the user's entry only once the reply has arrived
process_input_log_after(R) ==
    IF R.exc # "none" THEN R
    ELSE
    LET user_input == R.ss["user_input"]
        r == start_process(R.ss["generator"], user_input, Head(R.resps), R.net)
        ss2 == [R.ss EXCEPT !["generator"] = r.self]
        call == [user_content |-> user_input, exc |-> r.exc, val |-> r.val]
        R1 == [R EXCEPT !.net = r.net, !.calls = Append(@, call), !.resps = Tail(@)]
    IN  IF r.exc # "none"
        THEN [R1 EXCEPT !.ss = ss2, !.exc = r.exc]
        ELSE [R1 EXCEPT !.ss =
                 Put([ss2 EXCEPT !["chat_log"] =
                          @ \o <<[speaker |-> UserLabel, message |-> user_input],
                                 [speaker |-> AILabel, message |-> r.val]>>],
                     "clear_input", TRUE)]

\* process_input(), lines 9-16
process_input(R) ==
    IF R.exc # "none" THEN R
    ELSE
    LET user_input == R.ss["user_input"]
        ss1 == [R.ss EXCEPT !["chat_log"] =
                    Append(@, [speaker |-> UserLabel, message |-> user_input])]
        r == start_process(ss1["generator"], user_input, Head(R.resps), R.net)
        ss2 == [ss1 EXCEPT !["generator"] = r.self]
        call == [user_content |-> user_input, exc |-> r.exc, val |-> r.val]
        R1 == [R EXCEPT !.net = r.net, !.calls = Append(@, call), !.resps = Tail(@)]
    IN  IF r.exc # "none"
        THEN [R1 EXCEPT !.ss = ss2, !.exc = r.exc]
        ELSE [R1 EXCEPT !.ss =
                 Put([ss2 EXCEPT !["chat_log"] =
                          Append(@, [speaker |-> AILabel, message |-> r.val])],
                     "clear_input", TRUE)]

\* submit(), lines 4-7: the on_change callback of the text input
submit(R) ==
    process_input([R EXCEPT !.ss = Put(Put(R.ss, "user_input", R.ss["widget"]), "widget", <<>>)])

\* lines 18-19
InitGenerator(R) ==
    IF R.exc # "none" \/ Has(R.ss, "generator") THEN R
    ELSE LET g == QG_init(StudentId, files, api_key, R.clients) IN
         IF g.exc # "none"
         THEN [R EXCEPT !.exc = g.exc, !.clients = g.clients]
         ELSE [R EXCEPT !.ss = Put(R.ss, "generator", g.self), !.clients = g.clients]

\* lines 21-22
InitChatLog(R) ==
    IF R.exc # "none" \/ Has(R.ss, "chat_log") THEN R
    ELSE [R EXCEPT !.ss = Put(R.ss, "chat_log", <<>>)]

\* lines 24-25
InitClearInput(R) ==
    IF R.exc # "none" \/ Has(R.ss, "clear_input") THEN R
    ELSE [R EXCEPT !.ss = Put(R.ss, "clear_input", FALSE)]

\* lines 27-29
SeedTurn(R) ==
    IF R.exc # "none" \/ Has(R.ss, "user_input") THEN R
    ELSE process_input([R EXCEPT !.ss = Put(R.ss, "user_input", Seed)])

\* line 31: the text input, whose value lives under the key 'widget'
RenderInput(R) ==
    IF R.exc # "none" THEN R
    ELSE [R EXCEPT !.ss = IF Has(R.ss, "widget") THEN R.ss ELSE Put(R.ss, "widget", <<>>),
                   !.page.text_input = TRUE]

\* lines 33-34: st.button is True in the run its click triggered
RenderButton(R, clicked) ==
    IF R.exc # "none" THEN R
    ELSE LET R1 == [R EXCEPT !.page.button = TRUE] IN
         IF clicked THEN process_input(R1) ELSE R1

\* the line written for one chat_log entry, line 38
ChatLine(entry) == <<entry.speaker, ":", " ">> \o entry.message

\* lines 36-38
RenderChat(R) ==
    IF R.exc # "none" THEN R
    ELSE LET chat_log == R.ss["chat_log"] IN
         [R EXCEPT !.page.chat_shown = TRUE,
                   !.page.chat = [i \in 1..Len(chat_log) |-> ChatLine(chat_log[i])]]

\* one execution of the script body, lines 18-38
Script(R, clicked) ==
    RenderChat(RenderButton(RenderInput(SeedTurn(InitClearInput(InitChatLog(InitGenerator(R))))),
                            clicked))

\* the end of a run: the session state persists, the page shows what was
\* rendered, or the exception that aborted the run
Commit(R) ==
    /\ session_state' = R.ss
    /\ requests' = R.net
    /\ calls' = R.calls
    /\ clients' = R.clients
    /\ page' = [R.page EXCEPT !.error = R.exc]
    /\ UNCHANGED <<files, api_key>>

----------------------------------------------------------------------------
\* Events

\* the page is loaded, or rerun without a widget event
RunScript ==
    \E r \in Responses :
        /\ Commit(Script(Start(<<r>>), FALSE))
        /\ UNCHANGED typed

\* the user types t into the text input and commits it: on_change fires
\* submit, then the script reruns
TextSubmit(t) ==
    \E r \in Responses :
        /\ page.text_input
        /\ Len(calls) < MaxCalls
        /\ typed' = Append(typed, t)
        /\ Commit(Script(submit([Start(<<r>>) EXCEPT !.ss = Put(session_state, "widget", t)]),
                         FALSE))

\* the user clicks the send button: the script reruns with st.button True
ButtonPress ==
    \E r \in Responses :
        /\ page.button
        /\ Len(calls) < MaxCalls
        /\ Commit(Script(Start(<<r>>), TRUE))
        /\ UNCHANGED typed

EmptySession == [k \in {} |-> <<>>]

InitSession ==
    /\ session_state = EmptySession
    /\ requests = <<>>
    /\ calls = <<>>
    /\ clients = 0
    /\ typed = <<>>
    /\ page = [BlankPage EXCEPT !.error = "not run"]

Init ==
    /\ files \in [midterm : {NoFile, File(SampleMidterm)}, mygpt : {NoFile, File(SampleMygpt)}]
    /\ api_key \in BOOLEAN
    /\ InitSession

Next ==
    \/ RunScript
    \/ \E t \in TypedTexts : TextSubmit(t)
    \/ ButtonPress

Spec == Init /\ [][Next]_vars

\* Session construction over every bounded pair of student files
InitCtx ==
    /\ files \in [midterm : AllMidtermFiles, mygpt : AllMygptFiles]
    /\ api_key = TRUE
    /\ InitSession

NextCtx == RunScript

SpecCtx == InitCtx /\ [][NextCtx]_vars

----------------------------------------------------------------------------
\* Observations used by the properties

HasGen == Has(session_state, "generator")
Gen == session_state["generator"]
History == Gen.conversation_history

IsPrefix(s, t) == Len(s) <= Len(t) /\ SubSeq(t, 1, Len(s)) = s

OK(call) == call.exc = "none"
AllOK == \A k \in 1..Len(calls) : OK(calls[k])
NumOK(cs) == Cardinality({k \in 1..Len(cs) : OK(cs[k])})

\* the speakers of the turns of a call log: the user, then the AI when the call returned
RECURSIVE Speakers(_)
Speakers(cs) ==
    IF cs = <<>> THEN <<>>
    ELSE <<UserLabel>> \o (IF OK(cs[1]) THEN <<AILabel>> ELSE <<>>) \o Speakers(Tail(cs))

\* the number of transcript entries when the k-th call sends its request
EntriesAtCall(k) == 1 + k + NumOK(SubSeq(calls, 1, k - 1))

\* the position in a rendering of the first atom of entry i of E
RECURSIVE Offset(_, _)
Offset(E, i) == IF i = 1 THEN 1 ELSE Offset(E, i - 1) + Len(E[i - 1]) + 1

\* c holds the entries of E in order, each followed by one newline except the last
IsRendering(c, E) ==
    /\ Len(E) > 0
    /\ Len(c) = Offset(E, Len(E)) + Len(E[Len(E)]) - 1
    /\ \A i \in 1..Len(E) :
        /\ SubSeq(c, Offset(E, i), Offset(E, i) + Len(E[i]) - 1) = E[i]
        /\ i < Len(E) => c[Offset(E, i) + Len(E[i])] = NL

----------------------------------------------------------------------------
\* C1: in a session where every completion call succeeded, after k
\* start_process calls the transcript is the header followed by 2k turns,
\* each call's user text immediately followed by the reply returned for that
\* call.
C1_AlternatingTranscript ==
    (HasGen /\ AllOK) =>
        /\ Len(History) = 1 + 2 * Len(calls)
        /\ History[1] = Header
        /\ \A k \in 1..Len(calls) :
            /\ History[2 * k] = calls[k].user_content
            /\ History[2 * k + 1] = calls[k].val

C1_Witness ==
    /\ HasGen /\ AllOK /\ Len(calls) = 2
    /\ calls[1].user_content = Seed
    /\ calls[2].user_content = <<"b", "c">>
    /\ Len(History) = 5

\* C2: when the completion call of a start_process call fails, the caller
\* sees the error, and the transcript is the one before the call plus the
\* user turn of the call, with no assistant entry after it.
C2_FailedTurnKept ==
    [][ (Len(calls') = Len(calls) + 1 /\ ~OK(calls'[Len(calls')])) =>
            /\ HasGen'
            /\ HasGen => History' = Append(History, calls'[Len(calls')].user_content)
            /\ ~HasGen => History' = <<Header, calls'[Len(calls')].user_content>>
            /\ calls'[Len(calls')].exc = "APIError"
            /\ page'.error = "APIError" ]_vars

C2_Witness ==
    /\ Len(calls) = 2 /\ OK(calls[1]) /\ ~OK(calls[2])
    /\ Len(History) = 4
    /\ History[4] = calls[2].user_content
    /\ page.error = "APIError"

\* C3: every user turn submitted after the seeded first turn is one fresh
\* input typed by the user: the user turns are the seed followed by the typed
\* texts, in order.
C3_OneInputPerTurn ==
    Len(calls) > 0 =>
        [k \in 1..Len(calls) |-> calls[k].user_content] = <<Seed>> \o typed

\* C4: the transcript only grows: its length is one header plus one entry
\* per append, and every transcript state is a prefix of the next.
C4_AppendOnly ==
    /\ [](HasGen => /\ Len(History) = 1 + Len(calls) + NumOK(calls)
                    /\ History[1] = Header)
    /\ [][HasGen => (HasGen' /\ IsPrefix(History, History'))]_vars

C4_Witness ==
    /\ HasGen /\ Len(calls) = 3 /\ NumOK(calls) = 1 /\ Len(History) = 5

\* C5: the user content of the request of the k-th call is the rendering of
\* the whole transcript as it stood then: every entry in insertion order,
\* consecutive entries separated by one newline, the last entry being the
\* user turn of that call.
C5_RenderedTranscript ==
    HasGen =>
        \A k \in 1..Len(requests) :
            LET E == SubSeq(History, 1, EntriesAtCall(k))
                c == requests[k].request.messages[2].content
            IN  /\ k <= Len(calls)
                /\ EntriesAtCall(k) <= Len(History)
                /\ IsRendering(c, E)
                /\ E[Len(E)] = calls[k].user_content

C5_Witness ==
    /\ HasGen /\ Len(requests) = 3 /\ OK(calls[1]) /\ ~OK(calls[2])
    /\ Len(requests[3].request.messages[2].content) > Len(requests[2].request.messages[2].content)

\* C6: every start_process call issues exactly one completion request, made
\* of the system message then the user message, with temperature 0.6; the
\* text of its one completion is what the call returns.
C6_OneRequestPerCall ==
    /\ Len(requests) = Len(calls)
    /\ \A k \in 1..Len(requests) :
        LET q == requests[k].request
            a == requests[k].response
        IN  /\ Len(q.messages) = 2
            /\ q.messages[1].role = "system"
            /\ q.messages[2].role = "user"
            /\ q.temperature = 6
            /\ OK(calls[k]) <=> a.status = "ok"
            /\ OK(calls[k]) => (Len(a.choices) = 1 /\ calls[k].val = a.choices[1].message.content)

C6_Witness ==
    /\ Len(calls) = 3 /\ ~OK(calls[1]) /\ OK(calls[2]) /\ ~OK(calls[3])
    /\ calls[2].val = <<"q", NL, "r">>

\* C7: the system message of every request of the session is the system
\* instruction built at construction, and no later operation changes it.
C7_SystemInstructionFixed ==
    /\ [](HasGen =>
            /\ Gen.system_prompt_template =
                   initialize_system_prompt_template(
                       initialize_user_prompt_template(StudentId, files).val)
            /\ \A k \in 1..Len(requests) :
                   requests[k].request.messages[1].content = Gen.system_prompt_template)
    /\ [][HasGen => (HasGen' /\ Gen'.system_prompt_template = Gen.system_prompt_template)]_vars

C7_Witness ==
    /\ HasGen /\ Len(requests) = 3 /\ ~OK(calls[2]) /\ OK(calls[3])

\* C8: with the midterm file or the prior-questions file missing,
\* construction fails with a not-found error: no generator is stored, no
\* client is created, and no turn ever runs.
C8_AllOrNothing ==
    (~files.midterm.present \/ ~files.mygpt.present) =>
        /\ ~HasGen
        /\ session_state = EmptySession
        /\ clients = 0
        /\ calls = <<>>
        /\ requests = <<>>
        /\ page.error \in {"not run", "FileNotFoundError"}
        /\ ~page.text_input /\ ~page.button /\ ~page.chat_shown

C8_Witness ==
    /\ ~files.midterm.present /\ files.mygpt.present /\ api_key
    /\ page.error = "FileNotFoundError"
    /\ ~HasGen

\* the pieces of a text between its newlines
RECURSIVE SplitNL(_, _, _)
SplitNL(text, i, cur) ==
    IF i > Len(text) THEN <<cur>>
    ELSE IF text[i] = NL THEN <<cur>> \o SplitNL(text, i + 1, <<>>)
    ELSE SplitNL(text, i + 1, Append(cur, text[i]))

\* the lines of a text: a final newline ends the last line
Lines(text) ==
    LET ps == SplitNL(text, 1, <<>>) IN
    IF ps[Len(ps)] = <<>> THEN SubSeq(ps, 1, Len(ps) - 1) ELSE ps

Numerals == <<"1", "2", "3", "4", "5", "6", "7", "8", "9">>

MidtermLines(m) == [i \in 1..Len(m) |-> m[i].key \o <<":", " ">> \o m[i].value]

CategoryLines(c) ==
    <<c.key \o <<":">>, <<>>>>
        \o [j \in 1..Len(c.value) |-> <<Numerals[j], ".", " ">> \o c.value[j]]
        \o <<<<>>>>

RECURSIVE MygptLines(_)
MygptLines(g) == IF g = <<>> THEN <<>> ELSE CategoryLines(g[1]) \o MygptLines(Tail(g))

\* a block set after the indentation of the template: its first line is indented
Indented(ls) == <<<<Indent>> \o ls[1]>> \o Tail(ls)

\* C9: the system instruction holds, after the preamble, the midterm heading
\* followed by one "key: value" line per midterm entry in mapping order, then
\* the questions heading followed, per category in mapping order, by the
\* category name, its questions numbered from 1 in sequence order, and a
\* blank line closing the category.
C9_RenderedContext ==
    HasGen =>
        Lines(Gen.system_prompt_template) =
            <<<<>>, <<Preamble>>, <<>>, <<>>, <<Indent, MidtermHeading>>>>
                \o Indented(MidtermLines(files.midterm.data) \o <<<<>>>>)
                \o <<<<>>, <<Indent, QuestionsHeading>>>>
                \o Indented(MygptLines(files.mygpt.data) \o <<<<>>>>)
                \o <<<<Indent>>>>

C9_Witness ==
    /\ HasGen
    /\ Len(files.midterm.data) = 2
    /\ Len(files.mygpt.data) = 2
    /\ Len(files.mygpt.data[1].value) = 2
    /\ Len(files.mygpt.data[2].value) = 2

\* C10: the chat log, and the page whenever it shows the chat, list in order
\* exactly the transcript entries after the header, each under the label of
\* the speaker that produced it.
C10_DisplayMatchesTranscript ==
    HasGen =>
        /\ Has(session_state, "chat_log")
        /\ Len(session_state["chat_log"]) = Len(History) - 1
        /\ Len(Speakers(calls)) = Len(History) - 1
        /\ \A i \in 1..(Len(History) - 1) :
            /\ session_state["chat_log"][i].message = History[i + 1]
            /\ session_state["chat_log"][i].speaker = Speakers(calls)[i]
        /\ page.chat_shown =>
            /\ Len(page.chat) = Len(History) - 1
            /\ \A i \in 1..(Len(History) - 1) :
                page.chat[i] = <<Speakers(calls)[i], ":", " ">> \o History[i + 1]

C10_Witness ==
    /\ HasGen /\ page.chat_shown /\ Len(page.chat) = 4
    /\ ~OK(calls[1]) /\ OK(calls[2]) /\ ~OK(calls[3])

====
